---- MODULE Spec2Model ----
(***************************************************************************)
(* Bounded Bravais lattices of bloqade/ir/location/bravais.py.             *)
(*                                                                         *)
(* A client builds one lattice with a family constructor and then calls    *)
(* n_atoms, n_dims, enumerate and scale on it and on the lattices that     *)
(* scale returns.  The heap holds the instances; instances share no state. *)
(*                                                                         *)
(* Numbers.  Spacings, ratios, scale factors and coordinates are exact     *)
(* elements of the field Q(sqrt 3): <<a, b, d>> stands for                 *)
(* (a + b*sqrt(3)) / d, kept normalised (d > 0, gcd(a, b, d) = 1), so two  *)
(* numbers are equal iff their triples are.  Rounding of machine floats is *)
(* not part of this arithmetic.                                            *)
(***************************************************************************)
EXTENDS Integers, Sequences, FiniteSets, TLC

VARIABLES heap, origin, runs, last

vars == <<heap, origin, runs, last>>

\* ------------------------------------------------------------------ bounds
MaxL == 3           \* largest size parameter tried
NegSizes == 1       \* how many negative size parameters are tried
MaxSpacing == 2     \* lattice spacings 1..MaxSpacing
MaxFactor == 2      \* scale factors 1..MaxFactor
MaxObjs == 3        \* instances on the heap
MaxRuns == 2        \* computations of one derived property that are counted

Sizes == (0 - NegSizes)..MaxL

\* ------------------------------------------------------- scalar arithmetic
Abs(n) == IF n < 0 THEN 0 - n ELSE n

RECURSIVE GCD(_, _)
GCD(m, n) == IF n = 0 THEN m ELSE GCD(n, m % n)

Norm(a, b, d) ==
    IF d = 1 THEN <<a, b, d>>
    ELSE LET s == IF d < 0 THEN 0 - 1 ELSE 1
             g == GCD(GCD(Abs(a), Abs(b)), Abs(d))
         IN  <<(s * a) \div g, (s * b) \div g, (s * d) \div g>>

\* cast(x) of a Python number: the scalar with that value
cast(n) == <<n, 0, 1>>

Frac(n, d) == Norm(n, 0, d)

Sqrt3 == <<0, 1, 1>>

Mul(x, y) ==
    Norm(x[1] * y[1] + 3 * x[2] * y[2], x[1] * y[2] + x[2] * y[1], x[3] * y[3])

Add(x, y) ==
    Norm(x[1] * y[3] + y[1] * x[3], x[2] * y[3] + y[2] * x[3], x[3] * y[3])

\* x / y for y # 0: multiply by the conjugate of the denominator
Div(x, y) ==
    Mul(x, Norm(y[3] * y[1], 0 - y[3] * y[2], y[1] * y[1] - 3 * y[2] * y[2]))

Spacings == {cast(k) : k \in 1..MaxSpacing}
Factors == {cast(k) : k \in 1..MaxFactor}

\* --------------------------------------------------------------- instances
\* An instance: its class, the names of the attributes set on it (its
\* __dict__), and their values.  A private cache attribute holds <<>> for
\* None and <<v>> for a value.
Families ==
    {"Chain", "Square", "Rectangular", "Honeycomb", "Triangular", "Lieb", "Kagome"}

\* object.__new__(cls): no attribute is set; Rectangular.ratio reads the
\* class default 1.0
new(cls) ==
    [family |-> cls, attrs |-> {}, shape |-> <<>>, lattice_spacing |-> cast(1),
     ratio |-> cast(1), p_n_atoms |-> <<>>, p_n_dims |-> <<>>]

setattr(obj, name, value) ==
    CASE name = "shape" ->
           [obj EXCEPT !.shape = value, !.attrs = @ \cup {name}]
      [] name = "lattice_spacing" ->
           [obj EXCEPT !.lattice_spacing = value, !.attrs = @ \cup {name}]
      [] name = "ratio" ->
           [obj EXCEPT !.ratio = value, !.attrs = @ \cup {name}]
      [] name = "__n_atoms" ->
           [obj EXCEPT !.p_n_atoms = value, !.attrs = @ \cup {name}]
      [] name = "__n_dims" ->
           [obj EXCEPT !.p_n_dims = value, !.attrs = @ \cup {name}]

getattr(obj, name) ==
    CASE name = "shape" -> obj.shape
      [] name = "lattice_spacing" -> obj.lattice_spacing
      [] name = "ratio" -> obj.ratio
      [] name = "__n_atoms" -> obj.p_n_atoms
      [] name = "__n_dims" -> obj.p_n_dims

\* dataclasses.fields(self): the declared fields, InitVars left out
fields(self) ==
    IF self.family = "Rectangular"
    THEN <<"shape", "lattice_spacing", "ratio">>
    ELSE <<"shape", "lattice_spacing">>

\* BoundedBravais.__init__(self, *shape, lattice_spacing)
BoundedBravais(self, shape, lattice_spacing) ==
    setattr(setattr(setattr(setattr(self,
        "shape", shape),
        "lattice_spacing", lattice_spacing),
        "__n_atoms", <<>>),
        "__n_dims", <<>>)

\* Variant of Chain: the size is expanded as for a 2D family.
Chain_two_counts(L, lattice_spacing) ==
    BoundedBravais(new("Chain"), <<L, L>>, lattice_spacing)

Chain(L, lattice_spacing) ==
    BoundedBravais(new("Chain"), <<L>>, lattice_spacing)

Square(L, lattice_spacing) ==
    BoundedBravais(new("Square"), <<L, L>>, lattice_spacing)

\* Variant of Rectangular: the ratio is taken as x-spacing over y-spacing.
Rectangular_inverse_ratio(width, height, lattice_spacing_x, lattice_spacing_y) ==
    LET r == IF lattice_spacing_y = <<>>
             THEN Div(lattice_spacing_x, cast(1))
             ELSE Div(lattice_spacing_x, lattice_spacing_y[1])
    IN  BoundedBravais(setattr(new("Rectangular"), "ratio", r),
                       <<width, height>>, lattice_spacing_x)

\* lattice_spacing_y is <<>> when the argument is omitted (None), else <<y>>
Rectangular(width, height, lattice_spacing_x, lattice_spacing_y) ==
    LET r == IF lattice_spacing_y = <<>>
             THEN Div(cast(1), lattice_spacing_x)
             ELSE Div(lattice_spacing_y[1], lattice_spacing_x)
    IN  BoundedBravais(setattr(new("Rectangular"), "ratio", r),
                       <<width, height>>, lattice_spacing_x)

Honeycomb(L, lattice_spacing) ==
    BoundedBravais(new("Honeycomb"), <<L, L>>, lattice_spacing)

Triangular(L, lattice_spacing) ==
    BoundedBravais(new("Triangular"), <<L, L>>, lattice_spacing)

Lieb(L, lattice_spacing) ==
    BoundedBravais(new("Lieb"), <<L, L>>, lattice_spacing)

Kagome(L, lattice_spacing) ==
    BoundedBravais(new("Kagome"), <<L, L>>, lattice_spacing)

\* ---------------------------------------------------------------- geometry
Half == Frac(1, 2)
HalfSqrt3 == Div(Sqrt3, cast(2))            \* np.sqrt(3) / 2

cell_vectors(self) ==
    CASE self.family = "Chain" -> << <<cast(1), cast(0)>> >>
      [] self.family = "Square" -> << <<cast(1), cast(0)>>, <<cast(0), cast(1)>> >>
      [] self.family = "Rectangular" ->
           << <<cast(1), cast(0)>>, <<cast(0), self.ratio>> >>
      [] self.family = "Honeycomb" ->
           << <<cast(1), cast(0)>>, <<Half, HalfSqrt3>> >>
      [] self.family = "Triangular" ->
           << <<cast(1), cast(0)>>, <<Half, HalfSqrt3>> >>
      [] self.family = "Lieb" -> << <<cast(1), cast(0)>>, <<cast(0), cast(1)>> >>
      [] self.family = "Kagome" ->
           << <<cast(1), cast(0)>>, <<Half, HalfSqrt3>> >>

cell_atoms(self) ==
    CASE self.family = "Chain" -> << <<cast(0), cast(0)>> >>
      [] self.family = "Square" -> << <<cast(0), cast(0)>> >>
      [] self.family = "Rectangular" -> << <<cast(0), cast(0)>> >>
      [] self.family = "Honeycomb" ->
           << <<cast(0), cast(0)>>,
              <<Half, Div(cast(1), Mul(cast(2), Sqrt3))>> >>
      [] self.family = "Triangular" -> << <<cast(0), cast(0)>> >>
      [] self.family = "Lieb" ->
           << <<cast(0), cast(0)>>, <<Half, cast(0)>>, <<cast(0), Half>> >>
      [] self.family = "Kagome" ->
           << <<cast(0), cast(0)>>, <<Half, cast(0)>>,
              <<Frac(1, 4), Div(Sqrt3, cast(4))>> >>

\* ------------------------------------------------------------------ methods
\* A method maps the receiver to [self: the receiver after the call,
\* ret: the returned value, exc: the exception raised ("" for none),
\* ran: whether the underlying computation was executed].

RECURSIVE np_prod(_)
np_prod(shape) ==
    IF shape = <<>> THEN 1 ELSE Head(shape) * np_prod(Tail(shape))

\* Python truth value of a cache attribute: None and 0 are falsy
falsy(c) == c = <<>> \/ c[1] = 0

\* Variant of n_atoms: the atoms per unit cell are left out of the count.
n_atoms_cells_only(self) ==
    IF "__n_atoms" \notin self.attrs
    THEN [self |-> self, ret |-> <<>>, exc |-> "AttributeError", ran |-> FALSE]
    ELSE IF falsy(self.p_n_atoms)
         THEN LET v == np_prod(self.shape)
              IN  [self |-> setattr(self, "__n_atoms", <<v>>), ret |-> <<v>>,
                   exc |-> "", ran |-> TRUE]
         ELSE [self |-> self, ret |-> self.p_n_atoms, exc |-> "", ran |-> FALSE]

n_atoms(self) ==
    IF "__n_atoms" \notin self.attrs
    THEN [self |-> self, ret |-> <<>>, exc |-> "AttributeError", ran |-> FALSE]
    ELSE IF falsy(self.p_n_atoms)
         THEN LET v == Len(cell_atoms(self)) * np_prod(self.shape)
              IN  [self |-> setattr(self, "__n_atoms", <<v>>), ret |-> <<v>>,
                   exc |-> "", ran |-> TRUE]
         ELSE [self |-> self, ret |-> self.p_n_atoms, exc |-> "", ran |-> FALSE]

n_dims(self) ==
    IF "__n_dims" \notin self.attrs
    THEN [self |-> self, ret |-> <<>>, exc |-> "AttributeError", ran |-> FALSE]
    ELSE IF falsy(self.p_n_dims)
         THEN LET v == Len(cell_vectors(self))
              IN  [self |-> setattr(self, "__n_dims", <<v>>), ret |-> <<v>>,
                   exc |-> "", ran |-> TRUE]
         ELSE [self |-> self, ret |-> self.p_n_dims, exc |-> "", ran |-> FALSE]

\* Variant of range: the end point is included.
range_inclusive(n) == [i \in 1..(n + 1) |-> i - 1]

\* range(n) as the sequence 0, 1, ..., n-1; empty for n <= 0
range(n) == [i \in 1..n |-> i - 1]

\* itertools.product(*pools): result = [[]]; for each pool,
\* result = [x + [y] for x in result for y in pool]
RECURSIVE each_y(_, _, _)
each_y(x, pool, j) ==
    IF j > Len(pool) THEN <<>>
    ELSE <<Append(x, pool[j])>> \o each_y(x, pool, j + 1)

RECURSIVE each_x(_, _, _)
each_x(result, pool, i) ==
    IF i > Len(result) THEN <<>>
    ELSE each_y(result[i], pool, 1) \o each_x(result, pool, i + 1)

RECURSIVE product_from(_, _, _)
product_from(pools, k, result) ==
    IF k > Len(pools) THEN result
    ELSE product_from(pools, k + 1, each_x(result, pools[k], 1))

Reverse(s) == [i \in 1..Len(s) |-> s[Len(s) + 1 - i]]

\* Variant of product: the first index varies fastest.
product_first_fastest(pools) ==
    LET p == product_from(Reverse(pools), 1, << <<>> >>)
    IN  [i \in 1..Len(p) |-> Reverse(p[i])]

product(pools) == product_from(pools, 1, << <<>> >>)

\* np.sum(vectors.T * index, axis=1)[c]: the sum over k of vectors[k][c] * index[k]
RECURSIVE weighted_sum(_, _, _, _)
weighted_sum(vectors, index, c, k) ==
    IF k = 0 THEN cast(0)
    ELSE Add(weighted_sum(vectors, index, c, k - 1),
             Mul(vectors[k][c], cast(index[k])))

\* pos + np.array(cell_atoms()): one row per cell atom, from row a on
RECURSIVE add_atoms(_, _, _)
add_atoms(pos, atoms, a) ==
    IF a > Len(atoms) THEN <<>>
    ELSE << <<Add(pos[1], atoms[a][1]), Add(pos[2], atoms[a][2])>> >>
         \o add_atoms(pos, atoms, a + 1)

coordinates(self, index) ==
    LET vectors == cell_vectors(self)
        pos == <<weighted_sum(vectors, index, 1, Len(vectors)),
                 weighted_sum(vectors, index, 2, Len(vectors))>>
    IN  add_atoms(pos, cell_atoms(self), 1)

LocationInfo(position, filled) == [position |-> position, filled |-> filled]

\* the records one cell contributes, in the order of coordinates(index)
RECURSIVE cell_records(_, _, _)
cell_records(self, cs, a) ==
    IF a > Len(cs) THEN <<>>
    ELSE <<LocationInfo(<<Mul(self.lattice_spacing, cs[a][1]),
                          Mul(self.lattice_spacing, cs[a][2])>>, TRUE)>>
         \o cell_records(self, cs, a + 1)

RECURSIVE enumerate_from(_, _, _)
enumerate_from(self, indices, k) ==
    IF k > Len(indices) THEN <<>>
    ELSE cell_records(self, coordinates(self, indices[k]), 1)
         \o enumerate_from(self, indices, k + 1)

enumerate(self) ==
    [self |-> self,
     ret |-> enumerate_from(self,
                 product([d \in 1..Len(self.shape) |-> range(self.shape[d])]), 1),
     exc |-> "", ran |-> TRUE]

\* Variant of the field copy: the new spacing is the factor alone.
RECURSIVE copy_fields_factor_only(_, _, _, _, _)
copy_fields_factor_only(self, obj, factor, names, k) ==
    IF k > Len(names) THEN obj
    ELSE copy_fields_factor_only(self,
             IF names[k] = "lattice_spacing"
             THEN setattr(obj, "lattice_spacing", factor)
             ELSE setattr(obj, names[k], getattr(self, names[k])),
             factor, names, k + 1)

RECURSIVE copy_fields(_, _, _, _, _)
copy_fields(self, obj, factor, names, k) ==
    IF k > Len(names) THEN obj
    ELSE copy_fields(self,
             IF names[k] = "lattice_spacing"
             THEN setattr(obj, "lattice_spacing", Mul(factor, self.lattice_spacing))
             ELSE setattr(obj, names[k], getattr(self, names[k])),
             factor, names, k + 1)

\* Variant of scale: the receiver's spacing is rescaled too.
scale_in_place(self, factor) ==
    [self |-> setattr(self, "lattice_spacing", Mul(factor, self.lattice_spacing)),
     ret |-> copy_fields(self, new(self.family), factor, fields(self), 1),
     exc |-> "", ran |-> TRUE]

scale(self, factor) ==
    [self |-> self,
     ret |-> copy_fields(self, new(self.family), factor, fields(self), 1),
     exc |-> "", ran |-> TRUE]

\* ------------------------------------------------------------- the machine
\* heap[o]: the instance o.  origin[o] (history): the constructor arguments
\* of a constructed instance, or the instance and factor a scaled one was
\* made from.  runs[o] (history): how often each derived property's
\* computation ran on o.  last: the latest call, its receiver, argument,
\* returned value and exception.

Call(op, o, arg, ret, exc) ==
    [op |-> op, self |-> o, arg |-> arg, ret |-> ret, exc |-> exc]

Init ==
    /\ heap = <<>>
    /\ origin = <<>>
    /\ runs = <<>>
    /\ last = Call("none", 0, <<>>, <<>>, "")

\* the state after lattice = Family(...)
origin_of(args) == <<[parent |-> 0, factor |-> cast(1), args |-> args]>>

no_runs == [n_atoms |-> 0, n_dims |-> 0]

NewChain ==
    \E L \in Sizes, s \in Spacings :
        /\ heap = <<>>
        /\ heap' = <<Chain(L, s)>>
        /\ origin' = origin_of(<<L, s>>)
        /\ runs' = <<no_runs>>
        /\ last' = Call("Chain", 1, <<L, s>>, <<1>>, "")

NewSquare ==
    \E L \in Sizes, s \in Spacings :
        /\ heap = <<>>
        /\ heap' = <<Square(L, s)>>
        /\ origin' = origin_of(<<L, s>>)
        /\ runs' = <<no_runs>>
        /\ last' = Call("Square", 1, <<L, s>>, <<1>>, "")

NewRectangular ==
    \E w \in Sizes, h \in Sizes, sx \in Spacings,
       sy \in {<<>>} \cup {<<y>> : y \in Spacings} :
        /\ heap = <<>>
        /\ heap' = <<Rectangular(w, h, sx, sy)>>
        /\ origin' = origin_of(<<w, h, sx, sy>>)
        /\ runs' = <<no_runs>>
        /\ last' = Call("Rectangular", 1, <<w, h, sx, sy>>, <<1>>, "")

NewHoneycomb ==
    \E L \in Sizes, s \in Spacings :
        /\ heap = <<>>
        /\ heap' = <<Honeycomb(L, s)>>
        /\ origin' = origin_of(<<L, s>>)
        /\ runs' = <<no_runs>>
        /\ last' = Call("Honeycomb", 1, <<L, s>>, <<1>>, "")

NewTriangular ==
    \E L \in Sizes, s \in Spacings :
        /\ heap = <<>>
        /\ heap' = <<Triangular(L, s)>>
        /\ origin' = origin_of(<<L, s>>)
        /\ runs' = <<no_runs>>
        /\ last' = Call("Triangular", 1, <<L, s>>, <<1>>, "")

NewLieb ==
    \E L \in Sizes, s \in Spacings :
        /\ heap = <<>>
        /\ heap' = <<Lieb(L, s)>>
        /\ origin' = origin_of(<<L, s>>)
        /\ runs' = <<no_runs>>
        /\ last' = Call("Lieb", 1, <<L, s>>, <<1>>, "")

NewKagome ==
    \E L \in Sizes, s \in Spacings :
        /\ heap = <<>>
        /\ heap' = <<Kagome(L, s)>>
        /\ origin' = origin_of(<<L, s>>)
        /\ runs' = <<no_runs>>
        /\ last' = Call("Kagome", 1, <<L, s>>, <<1>>, "")

ReadNAtoms ==
    \E o \in 1..Len(heap) :
        LET r == n_atoms(heap[o])
        IN  /\ runs[o].n_atoms < MaxRuns
            /\ heap' = [heap EXCEPT ![o] = r.self]
            /\ runs' = [runs EXCEPT ![o].n_atoms = IF r.ran THEN @ + 1 ELSE @]
            /\ last' = Call("n_atoms", o, <<>>, r.ret, r.exc)
            /\ UNCHANGED origin

ReadNDims ==
    \E o \in 1..Len(heap) :
        LET r == n_dims(heap[o])
        IN  /\ runs[o].n_dims < MaxRuns
            /\ heap' = [heap EXCEPT ![o] = r.self]
            /\ runs' = [runs EXCEPT ![o].n_dims = IF r.ran THEN @ + 1 ELSE @]
            /\ last' = Call("n_dims", o, <<>>, r.ret, r.exc)
            /\ UNCHANGED origin

Enumerate ==
    \E o \in 1..Len(heap) :
        LET r == enumerate(heap[o])
        IN  /\ heap' = [heap EXCEPT ![o] = r.self]
            /\ last' = Call("enumerate", o, <<>>, r.ret, r.exc)
            /\ UNCHANGED <<origin, runs>>

Scale ==
    \E o \in 1..Len(heap), factor \in Factors :
        LET r == scale(heap[o], factor)
        IN  /\ Len(heap) < MaxObjs
            /\ heap' = Append([heap EXCEPT ![o] = r.self], r.ret)
            /\ origin' = Append(origin, [parent |-> o, factor |-> factor, args |-> <<>>])
            /\ runs' = Append(runs, no_runs)
            /\ last' = Call("scale", o, <<factor>>, <<Len(heap) + 1>>, r.exc)

Next ==
    \/ NewChain
    \/ NewSquare
    \/ NewRectangular
    \/ NewHoneycomb
    \/ NewTriangular
    \/ NewLieb
    \/ NewKagome
    \/ ReadNAtoms
    \/ ReadNDims
    \/ Enumerate
    \/ Scale

Spec == Init /\ [][Next]_vars

\* ------------------------------------------------------------------ claims
Objs == 1..Len(heap)

Constructed(o) == origin[o].parent = 0

NonNegative(shape) == \A k \in 1..Len(shape) : shape[k] >= 0

Positive(shape) == \A k \in 1..Len(shape) : shape[k] > 0

\* the positions one full run of enumerate() on obj yields, in order
Positions(obj) ==
    LET recs == enumerate(obj).ret
    IN  [r \in 1..Len(recs) |-> recs[r].position]

\* C1: after a read of n_atoms on an instance whose size parameters are all
\* >= 0, the value returned equals the number of records of one full run of
\* enumerate() on that instance, and both equal len(cell_atoms()) times the
\* product of shape; a full run of enumerate() yields that many records.
\* Square(0) reads 0 and enumerates nothing, without an exception.
C1_NAtomsIsEnumeratedCount ==
    \A o \in Objs :
        NonNegative(heap[o].shape) =>
            LET count == Len(cell_atoms(heap[o])) * np_prod(heap[o].shape)
            IN  /\ (last.op = "n_atoms" /\ last.self = o /\ last.exc = "") =>
                      /\ last.ret = <<Len(enumerate(heap[o]).ret)>>
                      /\ last.ret = <<count>>
                /\ (last.op = "enumerate" /\ last.self = o) =>
                      /\ last.exc = ""
                      /\ Len(last.ret) = count

C1_Witness ==
    /\ last.op = "n_atoms"
    /\ last.exc = ""
    /\ last.ret = <<0>>
    /\ heap[1].family = "Square"
    /\ heap[1].shape = <<0, 0>>
    /\ enumerate(heap[1]).ret = <<>>

\* C2: the r-th record of enumerate() belongs to cell number (r-1) div natoms
\* in row-major order of the multi-indices (last index fastest) and to cell
\* atom ((r-1) mod natoms) + 1 in the declared order; its position is
\* lattice_spacing * (sum_k i_k * cell_vector_k + a) and its flag is true.
\* Square(2) with spacing 1 enumerates (0,0), (0,1), (1,0), (1,1).
RECURSIVE Stride(_, _)
Stride(shape, k) ==
    IF k >= Len(shape) THEN 1 ELSE shape[k + 1] * Stride(shape, k + 1)

RECURSIVE CellCount(_, _)
CellCount(shape, k) ==
    IF k > Len(shape) THEN 1
    ELSE (IF shape[k] > 0 THEN shape[k] ELSE 0) * CellCount(shape, k + 1)

RowMajorIndex(shape, cell) ==
    [k \in 1..Len(shape) |-> (cell \div Stride(shape, k)) % shape[k]]

RECURSIVE CellOrigin(_, _, _, _)
CellOrigin(vectors, index, c, k) ==
    IF k > Len(vectors) THEN cast(0)
    ELSE Add(Mul(cast(index[k]), vectors[k][c]), CellOrigin(vectors, index, c, k + 1))

ExpectedRecord(obj, r) ==
    LET natoms == Len(cell_atoms(obj))
        index == RowMajorIndex(obj.shape, (r - 1) \div natoms)
        atom == cell_atoms(obj)[((r - 1) % natoms) + 1]
    IN  [position |->
            <<Mul(obj.lattice_spacing,
                  Add(CellOrigin(cell_vectors(obj), index, 1, 1), atom[1])),
              Mul(obj.lattice_spacing,
                  Add(CellOrigin(cell_vectors(obj), index, 2, 1), atom[2]))>>,
         filled |-> TRUE]

C2_EnumerationOrder ==
    last.op = "enumerate" =>
        LET obj == heap[last.self]
            n == Len(cell_atoms(obj)) * CellCount(obj.shape, 1)
        IN  /\ Len(last.ret) = n
            /\ \A r \in 1..n : last.ret[r] = ExpectedRecord(obj, r)
            /\ (obj.family = "Square" /\ obj.shape = <<2, 2>>
                    /\ obj.lattice_spacing = cast(1)) =>
                  [r \in 1..n |-> last.ret[r].position]
                      = << <<cast(0), cast(0)>>, <<cast(0), cast(1)>>,
                           <<cast(1), cast(0)>>, <<cast(1), cast(1)>> >>

C2_Witness ==
    /\ last.op = "enumerate"
    /\ heap[last.self].family = "Square"
    /\ heap[last.self].shape = <<2, 2>>
    /\ heap[last.self].lattice_spacing = cast(1)
    /\ Len(last.ret) = 4
    /\ last.ret[2].position = <<cast(0), cast(1)>>
    /\ last.ret[3].position = <<cast(1), cast(0)>>

\* C3: a scale(factor) step on instance o appends a new instance of o's
\* family with o's shape and lattice_spacing = factor * o.lattice_spacing,
\* and leaves every instance that existed before the call as it was (its
\* shape, lattice_spacing, ratio and enumerated positions included).
C3_ScaleIsPure ==
    [][last'.op = "scale" =>
          LET o == last'.self
              n == last'.ret[1]
          IN  /\ last'.exc = ""
              /\ n = Len(heap) + 1
              /\ Len(heap') = n
              /\ heap'[n].family = heap[o].family
              /\ heap'[n].shape = heap[o].shape
              /\ heap'[n].lattice_spacing = Mul(last'.arg[1], heap[o].lattice_spacing)
              /\ \A i \in 1..Len(heap) :
                    /\ heap'[i] = heap[i]
                    /\ Positions(heap'[i]) = Positions(heap[i])]_vars

C3_Witness ==
    /\ last.op = "scale"
    /\ Len(heap) = 3
    /\ origin[2].parent = 1
    /\ origin[3].parent = 1
    /\ origin[3].factor = cast(2)
    /\ heap[1].family = "Rectangular"
    /\ heap[1].shape = <<2, 3>>
    /\ heap[1].lattice_spacing = origin[1].args[3]
    /\ heap[3].family = "Rectangular"
    /\ heap[3].lattice_spacing = Mul(cast(2), heap[1].lattice_spacing)

\* C4: the positions of lattice.scale(k).scale(m) are those of
\* lattice.scale(k*m), element by element in the same order, and the
\* positions of lattice.scale(1) are those of lattice.
C4_ScaleComposes ==
    \A o \in Objs :
        LET p == origin[o].parent
        IN  p # 0 =>
              /\ origin[o].factor = cast(1) =>
                    Positions(heap[o]) = Positions(heap[p])
              /\ origin[p].parent # 0 =>
                    Positions(heap[o]) =
                        Positions(scale(heap[origin[p].parent],
                                        Mul(origin[p].factor, origin[o].factor)).ret)

C4_Witness ==
    /\ Len(heap) = 3
    /\ origin[2].parent = 1
    /\ origin[3].parent = 2
    /\ origin[2].factor = cast(2)
    /\ origin[3].factor = cast(2)
    /\ heap[1].family = "Honeycomb"
    /\ heap[1].shape = <<2, 2>>
    /\ heap[3].lattice_spacing = Mul(cast(4), heap[1].lattice_spacing)
    /\ Len(Positions(heap[3])) = 8
    /\ Positions(heap[3]) # Positions(heap[1])

\* C5 (as claimed): on any one instance the computation behind n_atoms, and
\* the one behind n_dims, runs at most once over any sequence of reads.
C5_ComputedAtMostOnce ==
    \A o \in Objs : runs[o].n_atoms <= 1 /\ runs[o].n_dims <= 1

\* C6: every instance has len(shape) = len(cell_vectors()), which is 1 for
\* Chain and 2 for every other family, and a read of n_dims returns it.
C6_ShapeMatchesDimension ==
    \A o \in Objs :
        /\ Len(heap[o].shape) = Len(cell_vectors(heap[o]))
        /\ Len(heap[o].shape) = (IF heap[o].family = "Chain" THEN 1 ELSE 2)
        /\ (last.op = "n_dims" /\ last.self = o /\ last.exc = "") =>
              last.ret = <<Len(heap[o].shape)>>

C6_Witness ==
    /\ last.op = "n_dims"
    /\ last.exc = ""
    /\ last.ret = <<1>>
    /\ heap[last.self].family = "Chain"
    /\ Len(heap[last.self].shape) = 1

\* C7: Rectangular(width, height, sx, sy) stores lattice_spacing = sx and a
\* ratio with ratio * sx = sy (= 1 when sy is omitted), and the atom of cell
\* (i, j) is enumerated at (i*sx, j*sy) (at (i*sx, j) when sy is omitted).
C7_RectangularSpacing ==
    \A o \in Objs :
        (heap[o].family = "Rectangular" /\ Constructed(o)) =>
            LET width == origin[o].args[1]
                height == origin[o].args[2]
                sx == origin[o].args[3]
                sy == IF origin[o].args[4] = <<>> THEN cast(1)
                      ELSE origin[o].args[4][1]
                pos == Positions(heap[o])
            IN  /\ heap[o].lattice_spacing = sx
                /\ Mul(heap[o].ratio, sx) = sy
                /\ cell_vectors(heap[o])[2] = <<cast(0), heap[o].ratio>>
                /\ \A i \in 0..(width - 1), j \in 0..(height - 1) :
                      pos[i * height + j + 1]
                          = <<Mul(cast(i), sx), Mul(cast(j), sy)>>

C7_Witness ==
    /\ Len(heap) >= 1
    /\ heap[1].family = "Rectangular"
    /\ origin[1].args = <<2, 3, cast(2), <<>> >>
    /\ heap[1].ratio = Frac(1, 2)
    /\ cell_vectors(heap[1])[2] = <<cast(0), Frac(1, 2)>>
    /\ last.op = "enumerate"
    /\ last.self = 1
    /\ last.ret[2].position = <<cast(0), cast(1)>>
    /\ last.ret[6].position = <<cast(2), cast(2)>>

\* C8 (as claimed): no instance whose shape holds a repeat count <= 0
\* exists, and a read of n_atoms never disagrees with the enumerated count.
C8_NonPositiveSizeRejected ==
    \A o \in Objs :
        /\ Positive(heap[o].shape)
        /\ (last.op = "n_atoms" /\ last.self = o /\ last.exc = "") =>
              last.ret = <<Len(enumerate(heap[o]).ret)>>

RECURSIVE Root(_)
Root(o) == IF origin[o].parent = 0 THEN o ELSE Root(origin[o].parent)

C10_ScaledInstanceUsable ==
    (last.op \in {"n_atoms", "n_dims"} /\ ~Constructed(last.self)) =>
        /\ last.exc = ""
        /\ last.ret = (IF last.op = "n_atoms" THEN n_atoms(heap[Root(last.self)]).ret
                       ELSE n_dims(heap[Root(last.self)]).ret)

====
